---- MODULE Spec2Model ----
(***************************************************************************)
(* Model of the provenance-tracking text builder of src/code_generation.rs *)
(* (ErrId, LineNumbersByKey, StringStorage, apply_template).               *)
(*                                                                         *)
(* A String is a sequence of one-character strings; "\n" is the line       *)
(* terminator.  A Range<usize> is a record [start, end] (half-open).  A    *)
(* BTreeMap is a function whose DOMAIN is its key set.  A call that        *)
(* returns yields Ok(v), v the value of self (or the result) after it; a   *)
(* call that panics yields Panic(why, v), v the value self had reached     *)
(* when the panic was raised.                                              *)
(***************************************************************************)
EXTENDS Integers, Sequences, FiniteSets, TLC

\* ------------------------------------------------------------------ bounds

\* Number of builder operations performed in one behaviour of Spec.
MaxOps == 4

\* Number of segments (literal spans and placeholder names) of a template.
MaxSegs == 4

\* ------------------------------------------------------------ input sets

NL == "\n"

\* ErrId values used as identifiers (the test uses ErrId(1) and ErrId(2)).
Ids == {1, 2}

\* Texts handed to add_string / add_identifier_string: empty, one line
\* without terminator, terminator inside, terminators at both ends.
Texts ==
    { <<>>,
      <<"a">>,
      <<"c", NL, "d">>,
      <<NL, "4", NL, "5", NL>> }

\* The two variables holding a StringStorage.
Slots == {"A", "B"}

\* ------------------------------------------------------- panics / results

\* why: "assert" (assert! in LineNumbersByKey::add) or "expect"
\* (Option::expect in apply_template).
Panic(why, v) == [ok |-> FALSE, why |-> why, v |-> v]

Ok(v) == [ok |-> TRUE, why |-> "", v |-> v]

\* ------------------------------------------------------- LineNumbersByKey

Range(s, e) == [start |-> s, end |-> e]

\* contains without the test of the lower bound.
Contains_no_lower(r, x) == x < r.end

\* Range::contains: start <= x < end.
Contains(r, x) == r.start <= x /\ x < r.end

\* LineNumbersByKey::default(): the empty BTreeMap.
EmptyIndex == [k \in {} |-> Range(0, 0)]

\* offset that moves only the start of each range.
offset_start_only(self, lines) ==
    [k \in DOMAIN self |-> Range(self[k].start + lines, self[k].end)]

\* LineNumbersByKey::offset: both bounds of every range moved by `lines`.
offset(self, lines) ==
    [k \in DOMAIN self |-> Range(self[k].start + lines, self[k].end + lines)]

\* BTreeMap::insert: the entry is set, replacing an older one.
Insert(self, identifier, lines) ==
    [k \in DOMAIN self \cup {identifier} |->
        IF k = identifier THEN lines ELSE self[k]]

\* add without its assert!: a second insert replaces the recorded range.
add_no_assert(self, identifier, lines) == Ok(Insert(self, identifier, lines))

\* add through entry().or_insert(): a key that is present keeps its range.
add_keep_first(self, identifier, lines) ==
    IF identifier \in DOMAIN self
    THEN Ok(self)
    ELSE Ok(Insert(self, identifier, lines))

\* LineNumbersByKey::add: assert the key is absent, then insert.
add(self, identifier, lines) ==
    IF identifier \in DOMAIN self
    THEN Panic("assert", self)
    ELSE Ok(Insert(self, identifier, lines))

\* The smallest key: BTreeMap iterates in key order.
FirstKey(m) == CHOOSE k \in DOMAIN m : \A j \in DOMAIN m : k <= j

\* The map without key k.
Without(m, k) == [j \in DOMAIN m \ {k} |-> m[j]]

\* extend through BTreeMap::extend: colliding keys are overwritten.
extend_overwrite(self, other) ==
    Ok([k \in DOMAIN self \cup DOMAIN other |->
          IF k \in DOMAIN other THEN other[k] ELSE self[k]])

RECURSIVE extend(_, _)
\* LineNumbersByKey::extend: add every entry of other, in key order; the
\* first add that panics ends the call.
extend(self, other) ==
    IF DOMAIN other = {}
    THEN Ok(self)
    ELSE LET k == FirstKey(other)
             r == add(self, k, other[k])
         IN  IF r.ok THEN extend(r.v, Without(other, k)) ELSE r

\* Option<T>
None == [some |-> FALSE]

Some(v) == [some |-> TRUE, v |-> v]

\* find that returns the last entry, in key order, that contains line_no.
find_last(self, line_no) ==
    LET hits == {k \in DOMAIN self : Contains(self[k], line_no)}
    IN  IF hits = {}
        THEN None
        ELSE Some(CHOOSE k \in hits : \A j \in hits : j <= k)

RECURSIVE find(_, _)
\* .iter().find(|(_, range)| range.contains(&line_no)): the first entry, in
\* key order, whose range contains line_no.
find(self, line_no) ==
    IF DOMAIN self = {}
    THEN None
    ELSE LET k == FirstKey(self)
         IN  IF Contains(self[k], line_no)
             THEN Some(k)
             ELSE find(Without(self, k), line_no)

\* get_identifier that counts the lines of a range from 0.
get_identifier_from_zero(self, line_no) ==
    LET f == find(self, line_no)
    IN  IF f.some
        THEN Some(<<f.v, line_no - self[f.v].start>>)
        ELSE None

\* LineNumbersByKey::get_identifier: the identifier found and the line
\* counted from the start of its range, the first line being 1.
get_identifier(self, line_no) ==
    LET f == find(self, line_no)
    IN  IF f.some
        THEN Some(<<f.v, line_no - self[f.v].start + 1>>)
        ELSE None

\* ---------------------------------------------------------- StringStorage

\* s.chars().filter(|c| *c == '\n').count()
CountNL(s) == Cardinality({i \in DOMAIN s : s[i] = NL})

\* The derived Default of StringStorage: the cursor starts at 0.
Default_derived ==
    [storage |-> <<>>, line_numbers |-> EmptyIndex, current_line_no |-> 0]

\* StringStorage::default()
Default ==
    [storage |-> <<>>, line_numbers |-> EmptyIndex, current_line_no |-> 1]

\* add_string that appends the text and leaves the cursor alone.
add_string_no_count(self, s) == [self EXCEPT !.storage = @ \o s]

\* StringStorage::add_string
add_string(self, s) ==
    [self EXCEPT !.current_line_no = @ + CountNL(s),
                 !.storage = @ \o s]

\* add_identifier_string that reads start after the text was appended.
add_identifier_string_late_start(self, identifier, s) ==
    LET s1    == add_string(self, s)
        start == s1.current_line_no
        end   == s1.current_line_no
        r     == add(s1.line_numbers, identifier, Range(start, end + 1))
    IN  [r EXCEPT !.v = [s1 EXCEPT !.line_numbers = r.v]]

\* add_identifier_string that records start..end instead of start..end + 1.
add_identifier_string_tight(self, identifier, s) ==
    LET start == self.current_line_no
        s1    == add_string(self, s)
        end   == s1.current_line_no
        r     == add(s1.line_numbers, identifier, Range(start, end))
    IN  [r EXCEPT !.v = [s1 EXCEPT !.line_numbers = r.v]]

\* StringStorage::add_identifier_string
add_identifier_string(self, identifier, s) ==
    LET start == self.current_line_no
        s1    == add_string(self, s)
        end   == s1.current_line_no
        r     == add(s1.line_numbers, identifier, Range(start, end + 1))
    IN  [r EXCEPT !.v = [s1 EXCEPT !.line_numbers = r.v]]

\* add_string_storage that shifts by the cursor instead of cursor - 1.
add_string_storage_off_by_one(self, other) ==
    LET shifted == offset(other.line_numbers, self.current_line_no)
        s1      == add_string(self, other.storage)
        r       == extend(s1.line_numbers, shifted)
    IN  [r EXCEPT !.v = [s1 EXCEPT !.line_numbers = r.v]]

\* add_string_storage that merges the ranges of other as they are.
add_string_storage_no_offset(self, other) ==
    LET s1 == add_string(self, other.storage)
        r  == extend(s1.line_numbers, other.line_numbers)
    IN  [r EXCEPT !.v = [s1 EXCEPT !.line_numbers = r.v]]

\* StringStorage::add_string_storage
add_string_storage(self, other) ==
    LET shifted == offset(other.line_numbers, self.current_line_no - 1)
        s1      == add_string(self, other.storage)
        r       == extend(s1.line_numbers, shifted)
    IN  [r EXCEPT !.v = [s1 EXCEPT !.line_numbers = r.v]]

\* --------------------------------------------------------- apply_template

\* The placeholder delimiter "//%".
DELIM == <<"/", "/", "%">>

\* Index of the first occurrence of "//%" in t, 0 if there is none.
FindDelim(t) ==
    LET hits == {i \in 1..(Len(t) - 2) : SubSeq(t, i, i + 2) = DELIM}
    IN  IF hits = {} THEN 0 ELSE CHOOSE i \in hits : \A j \in hits : i <= j

RECURSIVE Split(_)
\* template.split("//%"): the spans between successive non-overlapping
\* occurrences of the delimiter, found left to right; never empty.
Split(t) ==
    LET i == FindDelim(t)
    IN  IF i = 0
        THEN <<t>>
        ELSE <<SubSeq(t, 1, i - 1)>> \o Split(SubSeq(t, i + 3, Len(t)))

\* is_name with the parity of the positions exchanged.
is_name_even(pos) == pos % 2 = 0

\* .enumerate().map(|(pos, s)| (pos % 2 == 1, s)), pos counted from 0.
is_name(pos) == pos % 2 = 1

\* remove(s).unwrap_or_default(): an absent name gives an empty builder.
remove_or_default(storages, s) ==
    IF s \in DOMAIN storages
    THEN Ok([taken |-> storages[s], rest |-> Without(storages, s)])
    ELSE Ok([taken |-> Default, rest |-> storages])

\* storages.remove(s).expect(s): the builder stored under s, taken out of
\* the map; a panic when there is none.
remove_expect(storages, s) ==
    IF s \in DOMAIN storages
    THEN Ok([taken |-> storages[s], rest |-> Without(storages, s)])
    ELSE Panic("expect", [taken |-> Default, rest |-> storages])

RECURSIVE template_loop(_, _, _, _)
\* The for loop of apply_template from piece number pos (0-based) on.
template_loop(pieces, pos, result, storages) ==
    IF pos = Len(pieces)
    THEN Ok(result)
    ELSE LET s == pieces[pos + 1]
         IN  IF is_name(pos)
             THEN LET t == remove_expect(storages, s)
                  IN  IF ~t.ok
                      THEN Panic(t.why, result)
                      ELSE LET r == add_string_storage(result, t.v.taken)
                           IN  IF r.ok
                               THEN template_loop(pieces, pos + 1, r.v,
                                                  t.v.rest)
                               ELSE r
             ELSE template_loop(pieces, pos + 1, add_string(result, s),
                                storages)

\* apply_template(template, storages)
apply_template(template, storages) ==
    template_loop(Split(template), 0, Default, storages)

\* No builder of the mapping: the empty BTreeMap<String, StringStorage>.
NoStorages == [n \in {} |-> Default]

\* ---------------------------------------------------- ErrorId::identifier

\* identifier with the positions of the materials counted from 0.
identifier_from_zero(category, pos) ==
    CASE category = "Material"    -> pos
      [] category = "Object"      -> 2000 + pos
      [] category = "LibraryCode" -> 3000 + pos
      [] category = "Matrix"      -> 4000 + pos

\* <Material|Object|LibraryCode|Matrix as ErrorId>::identifier(pos)
identifier(category, pos) ==
    CASE category = "Material"    -> 1000 + pos
      [] category = "Object"      -> 2000 + pos
      [] category = "LibraryCode" -> 3000 + pos
      [] category = "Matrix"      -> 4000 + pos

\* ------------------------------------------- Scene::generate_shader_code
\*
\* A text is a sequence whose elements are "\n" or stand for a run of
\* characters without a line terminator: the formatted names, numbers and
\* positions are parts of such runs.

\* The names of the matrix uniforms one object needs.
object_uniforms(object) ==
    IF object.kind.portal
    THEN {<<object.kind.a, "normal">>, <<object.kind.a, "inverse">>,
          <<object.kind.b, "normal">>, <<object.kind.b, "inverse">>,
          <<object.kind.a, "teleport_to", object.kind.b>>}
            \cup (IF object.kind.b # object.kind.a
                  THEN {<<object.kind.b, "teleport_to", object.kind.a>>}
                  ELSE {})
    ELSE {<<object.kind.a, "normal">>, <<object.kind.a, "inverse">>}

\* AnyUniform -> UniformType
uniform_type(kind) ==
    IF kind \in {"Bool", "Int"} THEN "Int1" ELSE "Float1"

\* Scene::uniforms: the matrix names without repetition as Mat4, the
\* uniforms of the scene, the seven uniforms of the renderer ("_" names).
uniforms(self) ==
    LET names == UNION {object_uniforms(self.objects[i]) :
                           i \in DOMAIN self.objects}
    IN  [i \in 1..Cardinality(names) |-> [hidden |-> FALSE, kind |-> "Mat4"]]
            \o [i \in DOMAIN self.uniforms |->
                   [hidden |-> self.uniforms[i].hidden,
                    kind   |-> uniform_type(self.uniforms[i].kind)]]
            \o << [hidden |-> TRUE, kind |-> "Mat4"],
                  [hidden |-> TRUE, kind |-> "Float2"],
                  [hidden |-> TRUE, kind |-> "Int1"],
                  [hidden |-> TRUE, kind |-> "Float1"],
                  [hidden |-> TRUE, kind |-> "Float1"],
                  [hidden |-> TRUE, kind |-> "Int1"],
                  [hidden |-> TRUE, kind |-> "Float1"] >>

\* "uniform {} {};\n" for a name that does not start with "_".
uniform_body(result, pos, u) ==
    IF u.hidden
    THEN Ok(result)
    ELSE IF u.kind \in {"Mat4", "Float1", "Int1"}
         THEN Ok(add_string(result, <<"uniform {} {};", NL>>))
         ELSE Panic("unreachable", result)

\* "uniform sampler2D {};\n"
texture_body(result, pos, name) ==
    Ok(add_string(result, <<"uniform sampler2D", NL>>))

\* match &material.0 { .. }: what a material adds to material_processing.
material_code(material_processing, pos, material) ==
    IF material.kind = "Complex"
    THEN LET r == add_identifier_string(material_processing,
                                        identifier("Material", pos),
                                        material.code)
         IN  IF r.ok THEN Ok(add_string(r.v, <<NL>>)) ELSE r
    ELSE Ok(add_string(material_processing,
                       CASE material.kind = "Simple" ->
                                <<"return material_simple();", NL>>
                         [] material.kind = "Reflect" ->
                                <<"return material_reflect();", NL>>
                         [] material.kind = "Refract" ->
                                <<"return material_refract();", NL>>))

\* The body of the loop over the materials.
material_body(acc, pos, material) ==
    LET p == material_code(
                 add_string(acc.material_processing,
                            <<"} else if (i.material == _M) {", NL>>),
                 pos, material)
    IN  [p EXCEPT !.v =
            [material_processing |-> p.v,
             material_defines    |-> add_string(acc.material_defines,
                                                <<"#define _M", NL>>),
             counter             |-> acc.counter + 1]]

\* The body of the loop over the portals among the objects.
teleport_body(acc, pos, object) ==
    IF object.shape = "DebugMatrix" \/ ~object.kind.portal
    THEN Ok(acc)
    ELSE Ok([material_processing |->
                 add_string(
                     add_string(
                         add_string(
                             add_string(
                                 acc.material_processing,
                                 <<"} else if (i.material == teleport_1_M) {",
                                   NL>>),
                             <<"return material_teleport();">>),
                         <<"} else if (i.material == teleport_2_M) {", NL>>),
                     <<"return material_teleport();">>),
             material_defines |->
                 add_string(
                     add_string(acc.material_defines,
                                <<"#define teleport_1_M", NL>>),
                     <<"#define teleport_2_M", NL>>),
             counter |-> acc.counter + 2])

\* The closing of a function, when its code was added.
close_function(r) ==
    IF r.ok THEN Ok(add_string(r.v, <<NL, "}", NL>>)) ELSE r

\* function_body that adds the code of the object as plain text.
function_body_unidentified(result, pos, object) ==
    IF object.shape = "DebugMatrix"
    THEN Ok(result)
    ELSE Ok(add_string(add_string(add_string(result, <<"f() {", NL>>),
                                  object.code),
                       <<NL, "}", NL>>))

\* The body of the loop that builds intersection_functions.
function_body(result, pos, object) ==
    IF object.shape = "DebugMatrix"
    THEN Ok(result)
    ELSE close_function(
             add_identifier_string(
                 add_string(
                     result,
                     IF object.shape = "Flat"
                     THEN IF object.kind.portal
                          THEN <<"int is_inside_(pos, x, y, back, first) {",
                                 NL>>
                          ELSE <<"int is_inside_(pos, x, y) {", NL>>
                     ELSE IF object.kind.portal
                          THEN <<"SceneIntersection intersect_(r, first) {",
                                 NL>>
                          ELSE <<"SceneIntersection intersect_(r) {", NL>>),
                 identifier("Object", pos),
                 object.code))

\* The three add_string of one side of a flat portal.
flat_portal_side(result) ==
    add_string(
        add_string(
            add_string(result, <<"normal = get_normal();", NL>>),
            <<"hit = plane_intersect();", NL>>),
        <<"if (nearer(i, hit)) { process_portal_intersection }", NL, NL>>)

\* The three add_string of a transformed intersection: the first ends
\* without a line terminator.
transformed(result) ==
    add_string(
        add_string(
            add_string(result,
                       <<"transformed_ray = transform();", NL,
                         "len = length();", NL,
                         "transformed_ray.d = normalize();">>),
            <<"ihit = intersect();", NL, "ihit.hit.t /= len;", NL>>),
        <<"if (nearer(i, ihit)) { i = ihit; }", NL, NL>>)

\* The body of the loop that builds intersections.
intersection_body(result, pos, object) ==
    Ok(add_string(
           CASE object.shape = "DebugMatrix" -> transformed(result)
             [] object.shape = "Flat" /\ ~object.kind.portal ->
                    add_string(
                        add_string(result, <<"hit = plane_intersect();", NL>>),
                        <<"if (nearer(i, hit)) { process_plane }", NL, NL>>)
             [] object.shape = "Flat" /\ object.kind.portal ->
                    flat_portal_side(flat_portal_side(result))
             [] object.shape = "Complex" /\ ~object.kind.portal ->
                    transformed(result)
             [] object.shape = "Complex" /\ object.kind.portal ->
                    transformed(transformed(result)),
           <<NL>>))

\* The body of the loop that builds library.
library_body(result, pos, code) ==
    add_identifier_string(result, identifier("LibraryCode", pos), code)

\* The body of the loop named loop.
loop_body(loop, acc, pos, x) ==
    CASE loop = "uniforms"               -> uniform_body(acc, pos, x)
      [] loop = "textures"               -> texture_body(acc, pos, x)
      [] loop = "materials"              -> material_body(acc, pos, x)
      [] loop = "teleports"              -> teleport_body(acc, pos, x)
      [] loop = "intersection_functions" -> function_body(acc, pos, x)
      [] loop = "intersections"          -> intersection_body(acc, pos, x)
      [] loop = "library"                -> library_body(acc, pos, x)

RECURSIVE for_each(_, _, _, _, _)
\* for (pos, x) in xs.iter().enumerate() { body } over the positions
\* lo .. hi - 1, from the state acc; a panic of the body ends the loop.
for_each(loop, xs, lo, hi, acc) ==
    IF lo >= hi
    THEN Ok(acc)
    ELSE IF hi = lo + 1
         THEN loop_body(loop, acc, lo, xs[lo + 1])
         ELSE LET mid  == (lo + hi) \div 2
                  left == for_each(loop, xs, lo, mid, acc)
              IN  IF left.ok
                  THEN for_each(loop, xs, mid, hi, left.v)
                  ELSE left

\* The loop over the portals, when the loop over the materials returned.
teleports(self, m) ==
    IF m.ok
    THEN for_each("teleports", self.objects, 0, Len(self.objects), m.v)
    ELSE m

\* The block that builds material_processing and material_defines.
materials_sections(self) ==
    teleports(self,
              for_each("materials", self.materials, 0, Len(self.materials),
                       [material_processing |-> Default,
                        material_defines    |-> Default,
                        counter             |-> 0]))

\* The names of the sections.
UNIFORMS == <<"u", "n", "i", "f", "o", "r", "m", "s">>

TEXTURES == <<"t", "e", "x", "t", "u", "r", "e", "s">>

MATERIAL_PROCESSING ==
    <<"m", "a", "t", "e", "r", "i", "a", "l", "_",
      "p", "r", "o", "c", "e", "s", "s", "i", "n", "g">>

MATERIALS_DEFINES ==
    <<"m", "a", "t", "e", "r", "i", "a", "l", "s", "_",
      "d", "e", "f", "i", "n", "e", "s">>

INTERSECTION_FUNCTIONS ==
    <<"i", "n", "t", "e", "r", "s", "e", "c", "t", "i", "o", "n", "_",
      "f", "u", "n", "c", "t", "i", "o", "n", "s">>

INTERSECTIONS ==
    <<"i", "n", "t", "e", "r", "s", "e", "c", "t", "i", "o", "n", "s">>

LIBRARY_SECTION == <<"l", "i", "b", "r", "a", "r", "y">>

PREDEFINED_LIBRARY ==
    <<"p", "r", "e", "d", "e", "f", "i", "n", "e", "d", "_",
      "l", "i", "b", "r", "a", "r", "y">>

\* library.glsl, the text of the predefined library.
LIBRARY == <<"predefined", NL, "library", NL>>

\* storages.insert(name, { .. }): a panic of the block, or of an earlier
\* one, ends the construction.
insert(storages, name, r) ==
    IF ~storages.ok
    THEN storages
    ELSE IF ~r.ok
         THEN Panic(r.why, storages.v)
         ELSE Ok([n \in DOMAIN storages.v \cup {name} |->
                    IF n = name THEN r.v ELSE storages.v[n]])

\* The two sections the block of the materials yields.
insert_materials(storages, m) ==
    IF ~storages.ok
    THEN storages
    ELSE IF ~m.ok
         THEN Panic(m.why, storages.v)
         ELSE insert(insert(storages, MATERIAL_PROCESSING,
                            Ok(m.v.material_processing)),
                     MATERIALS_DEFINES, Ok(m.v.material_defines))

\* self.uniforms().into_iter() .. { .. }
uniforms_loop(us) == for_each("uniforms", us, 0, Len(us), Default)

\* The sections in the order of their construction.
shader_storages(self) ==
    insert(
      insert(
        insert(
          insert(
            insert_materials(
              insert(
                insert(Ok(NoStorages), UNIFORMS, uniforms_loop(uniforms(self))),
                TEXTURES,
                for_each("textures", self.textures, 0, Len(self.textures),
                         Default)),
              materials_sections(self)),
            INTERSECTION_FUNCTIONS,
            for_each("intersection_functions", self.objects, 0,
                     Len(self.objects), Default)),
          INTERSECTIONS,
          for_each("intersections", self.objects, 0, Len(self.objects),
                   Default)),
        LIBRARY_SECTION,
        for_each("library", self.library, 0, Len(self.library), Default)),
      PREDEFINED_LIBRARY,
      Ok(add_string(Default, LIBRARY)))

\* Scene::generate_shader_code, with the text of frag.glsl as a parameter.
generate_shader_code(self, FRAGMENT_SHADER) ==
    LET s == shader_storages(self)
    IN  IF s.ok
        THEN apply_template(FRAGMENT_SHADER, s.v)
        ELSE Panic(s.why, Default)

\* ------------------------------------- get_new_material: the error buckets

\* ErrId::default(): the derived Default of ErrId(usize).
ErrIdDefault == 0

\* usize::MAX.  The largest integer of the model stands for it; no line
\* number of the model comes near it.
USIZE_MAX == 2147483647

\* What shader_error_parser yields for one message of the compiler:
\* Ok((line_no, message)) or Err(message).
Recognized(line_no, message) ==
    [ok |-> TRUE, line_no |-> line_no, message |-> message]

Unparsed(message) == [ok |-> FALSE, line_no |-> 0, message |-> message]

\* BTreeMap::new(): no bucket.
NoErrors == [k \in {} |-> <<>>]

\* push that puts the item in front of the bucket.
Push_front(errors, id, item) ==
    [k \in DOMAIN errors \cup {id} |->
        IF k = id
        THEN <<item>> \o (IF id \in DOMAIN errors THEN errors[id] ELSE <<>>)
        ELSE errors[k]]

\* errors.entry(id).or_insert_with(|| Default::default()).push(item)
Push(errors, id, item) ==
    [k \in DOMAIN errors \cup {id} |->
        IF k = id
        THEN (IF id \in DOMAIN errors THEN errors[id] ELSE <<>>) \o <<item>>
        ELSE errors[k]]

\* route that keeps the line of the document for an owned message.
route_absolute(index, errors, x) ==
    IF x.ok
    THEN LET g == get_identifier(index, x.line_no)
         IN  IF g.some
             THEN Push(errors, g.v[1], <<x.line_no, x.message>>)
             ELSE Push(errors, ErrIdDefault, <<x.line_no, x.message>>)
    ELSE Push(errors, ErrIdDefault, <<USIZE_MAX, x.message>>)

\* The body of the loop over the parsed messages, for one of them.
route(index, errors, x) ==
    IF x.ok
    THEN LET g == get_identifier(index, x.line_no)
         IN  IF g.some
             THEN Push(errors, g.v[1], <<g.v[2], x.message>>)
             ELSE Push(errors, ErrIdDefault, <<x.line_no, x.message>>)
    ELSE Push(errors, ErrIdDefault, <<USIZE_MAX, x.message>>)

RECURSIVE route_all(_, _, _)
\* for x in shader_error_parser(&error_message) { ... }, from errors on.
route_all(index, errors, xs) ==
    IF xs = <<>>
    THEN errors
    ELSE route_all(index, route(index, errors, Head(xs)), Tail(xs))

\* The map_err closure of get_new_material: the buckets for the parsed
\* messages xs against the index of the generated code.
shader_errors(index, xs) == route_all(index, NoErrors, xs)

\* -------------------------------------------------------------- the state

VARIABLES
    st,      \* st[x]: the StringStorage held by variable x
    frag,    \* frag[x][id]: where the text given with id lies in st[x].storage
    last,    \* the last call: its name, arguments, outcome and pre-state
    nops,    \* number of calls made
    template,   \* apply_template's first argument
    storages,   \* apply_template's second argument
    tres,       \* apply_template's outcome; when returned, tres.v is `code`
    scene,      \* the Scene generate_shader_code runs on
    diags,      \* what shader_error_parser yielded
    errors,     \* the buckets get_new_material built from diags
    found       \* the last get_identifier call: its line and what it returned

vars ==
    <<st, frag, last, nops, template, storages, tres,
      scene, diags, errors, found>>

bvars == <<st, frag, last, nops>>

tvars == <<template, storages, tres>>

gvars == <<scene, diags, errors, found>>

NoFrag == [k \in {} |-> [first |-> 0, text |-> <<>>]]

NoCall ==
    [op |-> "none", target |-> "A", other |-> "B", id |-> 0, s |-> <<>>,
     outcome |-> "ok", pre |-> [x \in Slots |-> Default]]

Call(op, x, y, id, s, outcome) ==
    [op |-> op, target |-> x, other |-> y, id |-> id, s |-> s,
     outcome |-> outcome, pre |-> st]

\* apply_template not called.
Idle == [status |-> "idle", why |-> "", v |-> Default]

\* No scene: generate_shader_code is not part of the run.
NoScene ==
    [materials |-> <<>>, objects |-> <<>>, library |-> <<>>,
     uniforms |-> <<>>, textures |-> <<>>, matrices |-> <<>>]

\* get_identifier not called.
NotAsked == [asked |-> FALSE, line_no |-> 0, res |-> None]

\* No compilation was made: no messages, no buckets.
NoCompilation ==
    /\ diags = <<>>
    /\ errors = NoErrors
    /\ found = NotAsked

InitBuilders ==
    /\ st = [x \in Slots |-> Default]
    /\ frag = [x \in Slots |-> NoFrag]
    /\ last = NoCall
    /\ nops = 0

Init ==
    /\ InitBuilders
    /\ template = <<>>
    /\ storages = NoStorages
    /\ tres = Idle
    /\ scene = NoScene
    /\ NoCompilation

\* A panic ends the program: nothing runs after it.  The state it leaves
\* holds what the panicking call had written before the panic.
Running == last.outcome = "ok" /\ nops < MaxOps

\* st[x].add_string(s)
AddString(x, s) ==
    /\ Running
    /\ st' = [st EXCEPT ![x] = add_string(st[x], s)]
    /\ frag' = frag
    /\ last' = Call("add_string", x, x, 0, s, "ok")
    /\ nops' = nops + 1
    /\ UNCHANGED <<tvars, gvars>>

\* st[x].add_identifier_string(ErrId(id), s)
AddIdentifierString(x, id, s) ==
    /\ Running
    /\ LET r == add_identifier_string(st[x], id, s)
       IN  IF r.ok
           THEN /\ st' = [st EXCEPT ![x] = r.v]
                /\ frag' = [frag EXCEPT ![x] =
                       Insert(@, id, [first |-> Len(st[x].storage) + 1,
                                      text |-> s])]
                /\ last' = Call("add_identifier_string", x, x, id, s, "ok")
           ELSE /\ st' = [st EXCEPT ![x] = r.v]
                /\ frag' = frag
                /\ last' = Call("add_identifier_string", x, x, id, s, "panic")
    /\ nops' = nops + 1
    /\ UNCHANGED <<tvars, gvars>>

\* st[x].add_string_storage(st[y]): st[y] is moved into the call; the
\* variable y is then bound to a new StringStorage::default().
AddStringStorage(x, y) ==
    /\ Running
    /\ x # y
    /\ LET r == add_string_storage(st[x], st[y])
       IN  IF r.ok
           THEN /\ st' = [st EXCEPT ![x] = r.v, ![y] = Default]
                /\ frag' = [frag EXCEPT
                       ![x] = [k \in DOMAIN frag[x] \cup DOMAIN frag[y] |->
                                 IF k \in DOMAIN frag[x]
                                 THEN frag[x][k]
                                 ELSE [frag[y][k] EXCEPT
                                         !.first = @ + Len(st[x].storage)]],
                       ![y] = NoFrag]
                /\ last' = Call("add_string_storage", x, y, 0, <<>>, "ok")
           ELSE /\ st' = [st EXCEPT ![x] = r.v, ![y] = Default]
                /\ frag' = [frag EXCEPT ![y] = NoFrag]
                /\ last' = Call("add_string_storage", x, y, 0, <<>>, "panic")
    /\ nops' = nops + 1
    /\ UNCHANGED <<tvars, gvars>>

Next ==
    \/ \E x \in Slots, s \in Texts : AddString(x, s)
    \/ \E x \in Slots, id \in Ids, s \in Texts : AddIdentifierString(x, id, s)
    \/ \E x \in Slots, y \in Slots : AddStringStorage(x, y)

Spec == Init /\ [][Next]_vars

\* ------------------------------------------ apply_template on given inputs

S1 == <<"s", "1">>

S2 == <<"s", "2">>

\* The placeholder names a mapping may hold.
Names == {S1, S2}

\* What stands between two delimiters of a generated template: nothing, a
\* line, a lone "/" (which abuts the "//" of the delimiter), a name.
Segs == {<<>>, <<"a", NL>>, <<"/">>, S1, S2}

RECURSIVE Join(_)
\* The segments q written one after the other with "//%" between them.
Join(q) ==
    IF Len(q) = 1 THEN q[1] ELSE q[1] \o DELIM \o Join(Tail(q))

\* "abc\n//%s2//%\n\ne\nf\n//%s1//%\n9", the template of the unit test.
TestTemplate ==
    Join(<< <<"a", "b", "c", NL>>, S2, <<NL, NL, "e", NL, "f", NL>>, S1,
            <<NL, "9">> >>)

Templates ==
    {Join(q) : q \in UNION {[1..n -> Segs] : n \in 1..MaxSegs}}
        \cup {TestTemplate}

\* s1 of the unit test: "1\n2\n3\n", then ErrId(1) with "\n4\n5\n".
TestS1 ==
    add_identifier_string(
        add_string(Default, <<"1", NL, "2", NL, "3", NL>>),
        1, <<NL, "4", NL, "5", NL>>).v

\* s2 of the unit test: "a\nb", then ErrId(2) with "c\nd".
TestS2 ==
    add_identifier_string(
        add_string(Default, <<"a", NL, "b">>), 2, <<"c", NL, "d">>).v

\* A builder without identifiers, and one that holds ErrId(1) as TestS1 does.
Plain == add_string(Default, <<"x", NL>>)

Clash == add_string(add_identifier_string(Default, 1, <<"y">>).v, <<NL>>)

Builders == {TestS1, TestS2, Plain, Clash}

\* Every BTreeMap from some of the names to builders.
Mappings == UNION {[ns -> Builders] : ns \in SUBSET Names}

InitT ==
    /\ InitBuilders
    /\ template \in Templates
    /\ storages \in Mappings
    /\ tres = Idle
    /\ scene = NoScene
    /\ NoCompilation

\* tres = apply_template(template, storages)
ApplyTemplate ==
    /\ tres.status = "idle"
    /\ LET r == apply_template(template, storages)
       IN  tres' = IF r.ok
                   THEN [status |-> "returned", why |-> "", v |-> r.v]
                   ELSE [status |-> "panicked", why |-> r.why, v |-> Default]
    /\ UNCHANGED <<template, storages>>
    /\ UNCHANGED <<bvars, gvars>>

NextT == ApplyTemplate

SpecT == InitT /\ [][NextT]_vars

\* ----------------------------- get_identifier and the buckets on given code

\* Number of messages shader_error_parser yields in one compilation.
MaxDiags == 2

\* The messages of the compiler.
Messages == {"m", "n"}

\* The texts the code asked about is made of.
CodeTexts == {<<"a">>, <<"c", NL, "d">>}

\* The builders of B and what one more call makes of them.
Grow(B) ==
    B \cup {add_string(b, s) : b \in B, s \in CodeTexts}
      \cup {r.v : r \in {q \in {add_identifier_string(b, id, s) :
                                  b \in B, id \in Ids, s \in CodeTexts} : q.ok}}

\* The document of the unit test.
TestCode == apply_template(TestTemplate,
                [n \in Names |-> IF n = S1 THEN TestS1 ELSE TestS2]).v

\* The code whose index is asked: every builder two calls make of an empty
\* one, and the document of the unit test.
Codes == Grow(Grow({Default})) \cup {TestCode}

\* The line numbers a message may carry for code c: 0, every line of the
\* text, the one after it, and usize::MAX (what -1 is as a usize).
LinesFor(c) == 0..(c.current_line_no + 1) \cup {USIZE_MAX}

\* What the parser may yield for one message about code c.
DiagsFor(c) ==
    {Recognized(l, m) : l \in LinesFor(c), m \in Messages}
        \cup {Unparsed(m) : m \in Messages}

InitQ ==
    /\ InitBuilders
    /\ template = <<>>
    /\ storages = NoStorages
    /\ tres \in {[status |-> "returned", why |-> "", v |-> c] : c \in Codes}
    /\ scene = NoScene
    /\ NoCompilation

\* One call is made on the code: nothing is asked of it twice.
Fresh == ~found.asked /\ diags = <<>>

\* found = code.line_numbers.get_identifier(line_no)
GetIdentifier(line_no) ==
    /\ tres.status = "returned"
    /\ Fresh
    /\ found' = [asked |-> TRUE, line_no |-> line_no,
                 res |-> get_identifier(tres.v.line_numbers, line_no)]
    /\ UNCHANGED <<bvars, tvars, scene, diags, errors>>

\* The compiler rejected the code and its message was parsed into xs:
\* get_new_material builds the buckets.
ShaderErrors(xs) ==
    /\ tres.status = "returned"
    /\ Fresh
    /\ diags' = xs
    /\ errors' = shader_errors(tres.v.line_numbers, xs)
    /\ UNCHANGED <<bvars, tvars, scene, found>>

\* The sequences of at most n messages about code c.
DiagSeqs(c, n) == UNION {[1..k -> DiagsFor(c)] : k \in 1..n}

NextQ ==
    \/ Fresh /\ \E l \in LinesFor(tres.v) : GetIdentifier(l)
    \/ Fresh /\ \E xs \in DiagSeqs(tres.v, MaxDiags) : ShaderErrors(xs)

SpecQ == InitQ /\ [][NextQ]_vars

\* ------------------------------------- generate_shader_code on given scenes

\* Number of entities (materials, objects, library entries, uniforms,
\* textures, matrices) of a scene.
MaxEntities == 2

\* The sequences of at most n elements of S.
SeqsUpTo(S, n) == UNION {[1..k -> S] : k \in 0..n}

\* User code: one line without and one with its terminator, two lines.
UserCodes == {<<"a">>, <<"b", NL>>, <<"c", NL, "d">>}

Material(kind, code) == [kind |-> kind, code |-> code]

Materials ==
    {Material(k, <<>>) : k \in {"Simple", "Reflect", "Refract"}}
        \cup {Material("Complex", c) : c \in {<<"b", NL>>, <<"c", NL, "d">>}}

\* ObjectType::Simple(a) and ObjectType::Portal(a, b)
Simple(a) == [portal |-> FALSE, a |-> a, b |-> a]

Portal(a, b) == [portal |-> TRUE, a |-> a, b |-> b]

Object(shape, kind, code) == [shape |-> shape, kind |-> kind, code |-> code]

Objects ==
    {Object("DebugMatrix", Simple("p"), <<>>)}
        \cup {Object(s, k, <<"a">>) :
                 s \in {"Flat", "Complex"},
                 k \in {Simple("p"), Portal("p", "q"), Portal("q", "q")}}

Uniforms == {[hidden |-> FALSE, kind |-> "Float"],
             [hidden |-> TRUE, kind |-> "Bool"]}

\* The scenes of at most MaxEntities entities.
Scenes ==
    UNION {UNION {UNION {UNION {UNION {
        {[materials |-> m, objects |-> o, library |-> l,
          uniforms |-> u, textures |-> x, matrices |-> a] :
            a \in SeqsUpTo({"p"}, MaxEntities - Len(m) - Len(o) - Len(l)
                                      - Len(u) - Len(x))} :
            x \in SeqsUpTo({"t"}, MaxEntities - Len(m) - Len(o) - Len(l)
                                      - Len(u))} :
            u \in SeqsUpTo(Uniforms, MaxEntities - Len(m) - Len(o) - Len(l))} :
            l \in SeqsUpTo(UserCodes, MaxEntities - Len(m) - Len(o))} :
            o \in SeqsUpTo(Objects, MaxEntities - Len(m))} :
            m \in SeqsUpTo(Materials, MaxEntities)}

\* A scene with so many materials that the position of the last one,
\* a Complex one, is the distance from the identifiers of the materials to
\* those of the objects; and one object with code.
ManyMaterials(object) ==
    LET n == identifier("Object", 0) - identifier("Material", 0) + 1
    IN  [NoScene EXCEPT
            !.materials = [i \in 1..n |->
                              IF i = n
                              THEN Material("Complex", <<"a">>)
                              ELSE Material("Simple", <<>>)],
            !.objects = <<object>>]

LargeScenes ==
    {ManyMaterials(Object("Flat", Simple("p"), <<"a">>)),
     ManyMaterials(Object("Complex", Portal("p", "q"), <<"a">>))}

\* "//%name//%", a placeholder of a template.
Placeholder(name) == DELIM \o name \o DELIM

\* frag.glsl: the eight placeholders, each once, with text around them.
ShaderTemplate(order, text) ==
    text \o Placeholder(order[1]) \o text \o Placeholder(order[2])
         \o text \o Placeholder(order[3]) \o text \o Placeholder(order[4])
         \o text \o Placeholder(order[5]) \o text \o Placeholder(order[6])
         \o text \o Placeholder(order[7]) \o text \o Placeholder(order[8])
         \o text

FragmentShaders ==
    {ShaderTemplate(<<UNIFORMS, TEXTURES, MATERIAL_PROCESSING,
                      MATERIALS_DEFINES, INTERSECTION_FUNCTIONS,
                      INTERSECTIONS, LIBRARY_SECTION, PREDEFINED_LIBRARY>>,
                    <<NL>>),
     ShaderTemplate(<<PREDEFINED_LIBRARY, LIBRARY_SECTION, UNIFORMS, TEXTURES,
                      MATERIALS_DEFINES, INTERSECTION_FUNCTIONS,
                      INTERSECTIONS, MATERIAL_PROCESSING>>,
                    <<"x", NL, "y">>)}

InitG ==
    /\ InitBuilders
    /\ template \in FragmentShaders
    /\ storages = NoStorages
    /\ tres = Idle
    /\ scene \in Scenes \cup LargeScenes
    /\ NoCompilation

\* tres = scene.generate_shader_code()
Generate ==
    /\ tres.status = "idle"
    /\ LET r == generate_shader_code(scene, template)
       IN  /\ storages' = storages
           /\ tres' = IF r.ok
                      THEN [status |-> "returned", why |-> "", v |-> r.v]
                      ELSE [status |-> "panicked", why |-> r.why,
                            v |-> Default]
    /\ UNCHANGED <<bvars, template, gvars>>

\* One message about the generated code: on any line, or unparsed.
OneDiag(c) ==
    {<<Recognized(l, "m")>> : l \in LinesFor(c)} \cup {<<Unparsed("m")>>}

NextG ==
    \/ Generate
    \/ /\ tres.status = "returned"
       /\ Fresh
       /\ \E xs \in OneDiag(tres.v) : ShaderErrors(xs)

SpecG == InitG /\ [][NextG]_vars

\* ------------------------------- get_identifier on the builders of the calls

\* Number of builder calls made before get_identifier is asked.
MaxCalls == 3

\* found = st[x].line_numbers.get_identifier(line_no), for the builder x
\* the last call wrote.
Lookup(line_no) ==
    /\ last.op # "none"
    /\ last.outcome = "ok"
    /\ ~found.asked
    /\ DOMAIN st[last.target].line_numbers # {}
    /\ found' = [asked |-> TRUE, line_no |-> line_no,
                 res |-> get_identifier(st[last.target].line_numbers,
                                        line_no)]
    /\ UNCHANGED <<bvars, tvars, scene, diags, errors>>

\* The calls go on while nothing was asked.
Building == ~found.asked /\ nops < MaxCalls

NextL ==
    \/ \E x \in Slots, s \in Texts : Building /\ AddString(x, s)
    \/ \E x \in Slots, id \in Ids, s \in Texts :
           Building /\ AddIdentifierString(x, id, s)
    \/ \E x \in Slots, y \in Slots : Building /\ AddStringStorage(x, y)
    \/ \E l \in 0..(st[last.target].current_line_no + 1) : Lookup(l)

SpecL == Init /\ [][NextL]_vars

\* ================================================================ claims
\* The claims C1..C6 are checked under Spec, C7..C10 under SpecT.

\* The builder the last call was made on, before and after the call, and
\* the builder it was given (add_string_storage).
PreSelf == last.pre[last.target]

PostSelf == st[last.target]

PreOther == last.pre[last.other]

Returned(op) == last.op = op /\ last.outcome = "ok"

\* The line of s on which its k-th character lies: 1 + the number of
\* terminators before it.
LineOf(s, k) == 1 + CountNL(SubSeq(s, 1, k - 1))

\* C1: in every builder grown from an empty one by add_string,
\* add_identifier_string and add_string_storage, current_line_no is
\* 1 + the number of "\n" in storage.
C1_LineCount ==
    \A x \in Slots :
        st[x].current_line_no
            = 1 + Len(SelectSeq(st[x].storage, LAMBDA c : c = NL))

\* C1 witness: a splice has produced a builder with identified text whose
\* cursor has advanced past line 3.
C1_Witness ==
    /\ Returned("add_string_storage")
    /\ PostSelf.current_line_no > 3
    /\ PreSelf.current_line_no > 1
    /\ PreOther.current_line_no > 1

\* C2: add_identifier_string(id, text) with a fresh id on a builder whose
\* cursor is s records for id exactly s .. e + 1, where e = s + (number of
\* "\n" in text) is the cursor after the call.
C2_RecordedRange ==
    Returned("add_identifier_string") =>
        LET s == PreSelf.current_line_no
            e == s + CountNL(last.s)
        IN  /\ last.id \notin DOMAIN PreSelf.line_numbers
            /\ PostSelf.current_line_no = e
            /\ last.id \in DOMAIN PostSelf.line_numbers
            /\ PostSelf.line_numbers[last.id] = Range(s, e + 1)

\* C2 witness: the case of the unit test, cursor 4 and text "\n4\n5\n"
\* records 4..8.
C2_Witness ==
    /\ Returned("add_identifier_string")
    /\ PreSelf.current_line_no = 4
    /\ last.s = <<NL, "4", NL, "5", NL>>
    /\ PostSelf.line_numbers[last.id] = Range(4, 8)

\* C3: for every identifier inserted by add_identifier_string, in every
\* later state of the builder that holds it (also after a splice into
\* another builder), the inserted text still stands in storage and every
\* line on which one of its characters lies is inside the recorded range.
C3_Containment ==
    \A x \in Slots : \A id \in DOMAIN frag[x] :
        LET f == frag[x][id]
            n == Len(f.text)
        IN  /\ id \in DOMAIN st[x].line_numbers
            /\ SubSeq(st[x].storage, f.first, f.first + n - 1) = f.text
            /\ \A k \in f.first .. (f.first + n - 1) :
                   Contains(st[x].line_numbers[id], LineOf(st[x].storage, k))

\* C3 witness: a fragment of several lines was spliced behind text that
\* already held a terminator, so its range was shifted.
C3_Witness ==
    /\ Returned("add_string_storage")
    /\ PreSelf.current_line_no > 1
    /\ \E id \in DOMAIN frag[last.target] :
           /\ id \in DOMAIN PreOther.line_numbers
           /\ CountNL(frag[last.target][id].text) > 0
           /\ frag[last.target][id].first > Len(PreSelf.storage) + 1

\* C4: A.add_string_storage(B) with A's cursor at c, when it returns, leaves
\* storage = A.storage followed by B.storage (what A.add_string(B.storage)
\* gives), cursor = c + B.cursor - 1, and index = A's entries unchanged
\* plus every entry id -> [s, e) of B as id -> [s + c - 1, e + c - 1).
C4_SplicePost ==
    Returned("add_string_storage") =>
        LET a == PreSelf
            b == PreOther
            c == a.current_line_no
        IN  /\ PostSelf.storage = a.storage \o b.storage
            /\ PostSelf.storage = add_string(a, b.storage).storage
            /\ PostSelf.current_line_no = c + b.current_line_no - 1
            /\ DOMAIN PostSelf.line_numbers
                   = DOMAIN a.line_numbers \cup DOMAIN b.line_numbers
            /\ \A k \in DOMAIN a.line_numbers :
                   PostSelf.line_numbers[k] = a.line_numbers[k]
            /\ \A k \in DOMAIN b.line_numbers :
                   PostSelf.line_numbers[k]
                       = Range(b.line_numbers[k].start + c - 1,
                               b.line_numbers[k].end + c - 1)

\* C4 witness: both builders held an entry and A's cursor was past line 1.
C4_Witness ==
    /\ Returned("add_string_storage")
    /\ PreSelf.current_line_no > 1
    /\ DOMAIN PreSelf.line_numbers # {}
    /\ DOMAIN PreOther.line_numbers # {}

\* C5: add_identifier_string with an identifier already in the builder's
\* index panics; in no state has the call returned, and in no state is the
\* range recorded earlier replaced.
C5_DuplicatePanics ==
    (/\ last.op = "add_identifier_string"
     /\ last.id \in DOMAIN PreSelf.line_numbers) =>
        /\ last.outcome = "panic"
        /\ PostSelf.line_numbers = PreSelf.line_numbers

\* C5 witness: the call was made with an identifier already recorded, with
\* a text that would have given another range.
C5_Witness ==
    /\ last.op = "add_identifier_string"
    /\ last.outcome = "panic"
    /\ last.id \in DOMAIN PreSelf.line_numbers
    /\ PreSelf.line_numbers[last.id]
           # Range(PreSelf.current_line_no,
                   PreSelf.current_line_no + CountNL(last.s) + 1)

\* The entries of an index as a set of <<identifier, range>> pairs.
Entries(m) == {<<k, m[k]>> : k \in DOMAIN m}

\* C6: A.add_string_storage(B) panics whenever an identifier is in both
\* indices; when the identifier sets are disjoint it returns and the merged
\* index is the union of A's entries and B's shifted entries.
C6_MergeCollision ==
    last.op = "add_string_storage" =>
        LET a == PreSelf.line_numbers
            b == PreOther.line_numbers
            d == PreSelf.current_line_no - 1
        IN  IF DOMAIN a \cap DOMAIN b # {}
            THEN last.outcome = "panic"
            ELSE /\ last.outcome = "ok"
                 /\ Entries(PostSelf.line_numbers)
                        = Entries(a) \cup
                          {<<k, Range(b[k].start + d, b[k].end + d)>> :
                               k \in DOMAIN b}

\* C6 witness: a splice of two builders that both held the same identifier
\* (and B one more).
C6_Witness ==
    /\ last.op = "add_string_storage"
    /\ last.outcome = "panic"
    /\ DOMAIN PreSelf.line_numbers \cap DOMAIN PreOther.line_numbers # {}
    /\ DOMAIN PreOther.line_numbers \ DOMAIN PreSelf.line_numbers # {}

\* ------------------------------------------------- C7..C10, under SpecT

\* The spans of the template between its delimiters; those at an even
\* place (the 2nd, 4th, ...) are the placeholder names.
Pieces == Split(template)

NamePlaces == {i \in 1..Len(Pieces) : i % 2 = 0}

UsedNames == {Pieces[i] : i \in NamePlaces}

\* Every placeholder names a builder of the mapping.
AllSupplied == UsedNames \subseteq DOMAIN storages

RECURSIVE DocumentUpTo(_)
\* The text the first n pieces stand for: a literal span itself, a
\* placeholder the storage of the builder it names.
DocumentUpTo(n) ==
    IF n = 0
    THEN <<>>
    ELSE DocumentUpTo(n - 1) \o
            (IF n \in NamePlaces THEN storages[Pieces[n]].storage
                                 ELSE Pieces[n])

\* The template names N distinct placeholders and the mapping holds exactly
\* those N names.
ExactMapping ==
    /\ \A i, j \in NamePlaces : Pieces[i] = Pieces[j] => i = j
    /\ UsedNames = DOMAIN storages

\* Two builders of the mapping hold the same identifier.
SharedIdentifier ==
    \E m, n \in DOMAIN storages :
        /\ m # n
        /\ DOMAIN storages[m].line_numbers
               \cap DOMAIN storages[n].line_numbers # {}

\* C7: the storage apply_template returns is the template's literal spans,
\* unchanged and in their order (the template is its spans with "//%"
\* between them), with the storage of each named builder at the place of its
\* placeholder; with N distinct placeholders and exactly those N names in
\* the mapping the call returns, unless two builders share an identifier.
C7_TemplateText ==
    /\ tres.status = "returned" =>
           /\ Join(Pieces) = template
           /\ AllSupplied
           /\ tres.v.storage = DocumentUpTo(Len(Pieces))
    /\ (tres.status # "idle" /\ ExactMapping) =>
           \/ tres.status = "returned"
           \/ tres.why = "assert" /\ SharedIdentifier

\* "abc\na\nbc\nd\n\ne\nf\n1\n2\n3\n\n4\n5\n\n9", the text the unit test
\* expects.
TestDocument ==
    <<"a", "b", "c", NL, "a", NL, "b", "c", NL, "d", NL, NL, "e", NL, "f",
      NL, "1", NL, "2", NL, "3", NL, NL, "4", NL, "5", NL, NL, "9">>

TestStorages == [n \in Names |-> IF n = S1 THEN TestS1 ELSE TestS2]

\* C7 witness: the unit test's template and builders gave its document.
C7_Witness ==
    /\ tres.status = "returned"
    /\ template = TestTemplate
    /\ storages = TestStorages
    /\ tres.v.storage = TestDocument

\* C8: the index apply_template returns holds exactly the identifiers of
\* the substituted builders, each with its range in its own builder moved
\* by the number of "\n" that stand before the builder's text in the final
\* document.
C8_TemplateProvenance ==
    tres.status = "returned" =>
        /\ DOMAIN tres.v.line_numbers
               = UNION {DOMAIN storages[Pieces[i]].line_numbers :
                           i \in NamePlaces}
        /\ \A i \in NamePlaces :
               LET own == storages[Pieces[i]].line_numbers
                   d   == CountNL(DocumentUpTo(i - 1))
               IN  \A id \in DOMAIN own :
                       tres.v.line_numbers[id]
                           = Range(own[id].start + d, own[id].end + d)

\* C8 witness: the worked example, 4..8 became 11..15 and 2..4 became 3..5.
C8_Witness ==
    /\ tres.status = "returned"
    /\ template = TestTemplate
    /\ storages = TestStorages
    /\ storages[S1].line_numbers[1] = Range(4, 8)
    /\ storages[S2].line_numbers[2] = Range(2, 4)
    /\ tres.v.line_numbers[1] = Range(11, 15)
    /\ tres.v.line_numbers[2] = Range(3, 5)
    /\ tres.v.current_line_no = 15

\* A placeholder whose name is not in the mapping when it is reached: never
\* supplied, or taken by an earlier placeholder of the same name.
MissingAtSubstitution ==
    \E i \in NamePlaces :
        \/ Pieces[i] \notin DOMAIN storages
        \/ \E j \in NamePlaces : j < i /\ Pieces[j] = Pieces[i]

\* C9: apply_template panics whenever a placeholder names a builder that is
\* not in the mapping at the moment of its substitution.
C9_MissingPanics ==
    (tres.status # "idle" /\ MissingAtSubstitution) =>
        tres.status = "panicked"

\* C9 witness: every name was supplied, one was used a second time, and
\* the second use panicked in expect.
C9_Witness ==
    /\ tres.status = "panicked"
    /\ tres.why = "expect"
    /\ AllSupplied
    /\ MissingAtSubstitution

\* C10: apply_template never returns while an entry of the mapping was
\* consumed by no placeholder.
C10_UnusedIsError ==
    tres.status = "returned" => DOMAIN storages \subseteq UsedNames

\* ------------------------------------------------ C11..C14, under SpecQ

\* The index of the code that is asked.
CodeIndex == tres.v.line_numbers

\* The identifiers whose half-open range holds line l.
Owners(l) ==
    {k \in DOMAIN CodeIndex :
        CodeIndex[k].start <= l /\ l < CodeIndex[k].end}

\* The smallest of a set of identifiers, in the order of ErrId.
Smallest(S) == CHOOSE k \in S : \A j \in S : k <= j

\* C11: get_identifier(line) returns, of the entries whose range holds
\* line, the one with the smallest identifier, whatever was inserted first,
\* with local_line = line - range.start + 1; it returns None exactly when
\* no range holds line.
C11_FindOwner ==
    found.asked =>
        LET l == found.line_no
        IN  IF Owners(l) = {}
            THEN ~found.res.some
            ELSE /\ found.res.some
                 /\ found.res.v[1] = Smallest(Owners(l))
                 /\ found.res.v[2]
                        = l - CodeIndex[Smallest(Owners(l))].start + 1

\* C11 witness: the line is in the ranges of both identifiers, the larger
\* identifier was inserted first (its range starts earlier), and the
\* smaller one was returned.
C11_Witness ==
    /\ found.asked
    /\ Owners(found.line_no) = {1, 2}
    /\ CodeIndex[2].start < CodeIndex[1].start
    /\ found.res = Some(<<1, 1>>)

\* The elements of a sequence.
Elems(s) == {s[i] : i \in DOMAIN s}

\* The bucket a parsed message belongs to, and what is to be put there.
Target(x) ==
    IF x.ok /\ Owners(x.line_no) # {}
    THEN Smallest(Owners(x.line_no))
    ELSE 0

Item(x) ==
    IF ~x.ok
    THEN <<USIZE_MAX, x.message>>
    ELSE IF Owners(x.line_no) = {}
         THEN <<x.line_no, x.message>>
         ELSE <<x.line_no - CodeIndex[Target(x)].start + 1, x.message>>

\* C12: a recognized (line, message) whose line get_identifier gives to
\* (id, local) is put as (local, message) in the bucket of id, otherwise as
\* (line, message) in the bucket of ErrId(0); an unparsed message is put as
\* (usize::MAX, message) in the bucket of ErrId(0).  No other bucket exists.
C12_Routing ==
    diags # <<>> =>
        /\ \A i \in DOMAIN diags :
               /\ Target(diags[i]) \in DOMAIN errors
               /\ Item(diags[i]) \in Elems(errors[Target(diags[i])])
        /\ DOMAIN errors = {Target(diags[i]) : i \in DOMAIN diags}

\* C12 witness: the worked example; against the unit test's document line
\* 13 went to (X, 3), X = ErrId(1), and line 1 to the default identifier.
C12_Witness ==
    /\ tres.v = TestCode
    /\ diags = <<Recognized(13, "m"), Recognized(1, "n")>>
    /\ errors = [k \in {0, 1} |->
                   IF k = 1 THEN << <<3, "m">> >> ELSE << <<1, "n">> >>]

\* The items of the messages xs that belong to bucket id, in their order.
RECURSIVE RoutedTo(_, _)
RoutedTo(xs, id) ==
    IF xs = <<>>
    THEN <<>>
    ELSE (IF Target(Head(xs)) = id THEN <<Item(Head(xs))>> ELSE <<>>)
            \o RoutedTo(Tail(xs), id)

RECURSIVE TotalLen(_, _)
\* The number of items in the buckets S of errors.
TotalLen(e, S) ==
    IF S = {}
    THEN 0
    ELSE LET k == CHOOSE k \in S : TRUE
         IN  Len(e[k]) + TotalLen(e, S \ {k})

\* C13: every parsed message is in exactly one bucket exactly once, and
\* each bucket is the sequence of the messages routed to it in the order
\* they were received.
C13_NothingLost ==
    diags # <<>> =>
        /\ TotalLen(errors, DOMAIN errors) = Len(diags)
        /\ \A id \in DOMAIN errors :
               /\ errors[id] # <<>>
               /\ errors[id] = RoutedTo(diags, id)

\* C13 witness: two different messages on lines of the same fragment, and
\* its bucket holds both, the first one first.
C13_Witness ==
    /\ Len(diags) = 2
    /\ diags[1].ok /\ diags[2].ok
    /\ diags[1].line_no > diags[2].line_no
    /\ diags[1].message # diags[2].message
    /\ Target(diags[1]) = 2
    /\ DOMAIN errors = {2}
    /\ errors[2] = <<Item(diags[1]), Item(diags[2])>>

\* The recognized messages whose line is 0, usize::MAX (what -1 becomes as
\* a usize) or larger than the end of every recorded range.
Outside ==
    {i \in DOMAIN diags :
        /\ diags[i].ok
        /\ \/ diags[i].line_no = 0
           \/ diags[i].line_no = USIZE_MAX
           \/ \A k \in DOMAIN CodeIndex : diags[i].line_no > CodeIndex[k].end}

\* C14: a recognized message whose line is 0, -1 (usize::MAX) or larger
\* than every recorded end is put, with its line, in the bucket of the
\* default identifier and in no other bucket: the other buckets hold no
\* more items than there are other recognized messages.
C14_DefaultFallback ==
    diags # <<>> =>
        /\ \A i \in Outside :
               /\ ErrIdDefault \in DOMAIN errors
               /\ <<diags[i].line_no, diags[i].message>>
                      \in Elems(errors[ErrIdDefault])
        /\ TotalLen(errors, DOMAIN errors \ {ErrIdDefault})
               <= Cardinality({i \in DOMAIN diags : diags[i].ok} \ Outside)
        /\ Len(diags) = TotalLen(errors, DOMAIN errors)

\* C14 witness: the index holds ranges, one message is on line 0 and one
\* behind the end of every range, and the default bucket holds both.
C14_Witness ==
    /\ Len(diags) = 2
    /\ DOMAIN CodeIndex = {1, 2}
    /\ diags[1].ok /\ diags[1].line_no = 0
    /\ diags[2].ok /\ diags[2].line_no # USIZE_MAX
    /\ \A k \in DOMAIN CodeIndex : diags[2].line_no > CodeIndex[k].end
    /\ DOMAIN errors = {ErrIdDefault}
    /\ Len(errors[ErrIdDefault]) = 2

\* ------------------------------------------------ C15..C19, under SpecG

\* The entities of the scene, as (category, position) pairs.
Entities ==
    {<<"Material", i - 1>> : i \in DOMAIN scene.materials}
        \cup {<<"Object", i - 1>> : i \in DOMAIN scene.objects}
        \cup {<<"LibraryCode", i - 1>> : i \in DOMAIN scene.library}
        \cup {<<"Matrix", i - 1>> : i \in DOMAIN scene.matrices}

\* The entities whose text is appended with an identifier.
Fragments ==
    {<<"Material", i - 1>> :
        i \in {j \in DOMAIN scene.materials :
                  scene.materials[j].kind = "Complex"}}
        \cup {<<"Object", i - 1>> :
                 i \in {j \in DOMAIN scene.objects :
                           scene.objects[j].shape \in {"Flat", "Complex"}}}
        \cup {<<"LibraryCode", i - 1>> : i \in DOMAIN scene.library}

IdOf(f) == identifier(f[1], f[2])

\* The text of fragment f.
CodeOf(sc, f) ==
    CASE f[1] = "Material"    -> sc.materials[f[2] + 1].code
      [] f[1] = "Object"      -> sc.objects[f[2] + 1].code
      [] f[1] = "LibraryCode" -> sc.library[f[2] + 1]

\* The scene with "[" and "]" around the text of fragment f; the two add
\* no line terminator, so every character stays on its line.
Marked(f) ==
    LET code == <<"[">> \o CodeOf(scene, f) \o <<"]">>
    IN  CASE f[1] = "Material" ->
                 [scene EXCEPT !.materials[f[2] + 1].code = code]
          [] f[1] = "Object" ->
                 [scene EXCEPT !.objects[f[2] + 1].code = code]
          [] f[1] = "LibraryCode" ->
                 [scene EXCEPT !.library[f[2] + 1] = code]

\* The line of document d on which the character c, which d holds once,
\* lies.
LineOfChar(d, c) ==
    LET k == CHOOSE k \in DOMAIN d : d[k] = c
    IN  1 + Cardinality({j \in 1..(k - 1) : d[j] = NL})

\* The lines of the generated document that carry text of fragment f: from
\* the line of its first character to the line of its last one.
TextLines(f) ==
    LET d    == generate_shader_code(Marked(f), template).v.storage
        code == CodeOf(scene, f)
    IN  IF code = <<>>
        THEN {}
        ELSE IF code[Len(code)] = NL
             THEN LineOfChar(d, "[")..(LineOfChar(d, "]") - 1)
             ELSE LineOfChar(d, "[")..LineOfChar(d, "]")

FirstLine(f) ==
    LineOfChar(generate_shader_code(Marked(f), template).v.storage, "[")

\* C15: a diagnostic on a line that carries text of exactly one identified
\* fragment F is put in the bucket of F's identifier, with the number of
\* the line within F's text.
C15_Attribution ==
    (diags # <<>> /\ diags[1].ok) =>
        \A f \in Fragments :
            (/\ diags[1].line_no \in TextLines(f)
             /\ \A g \in Fragments \ {f} : diags[1].line_no \notin TextLines(g))
                => /\ DOMAIN errors = {IdOf(f)}
                   /\ errors[IdOf(f)] =
                          << <<diags[1].line_no - FirstLine(f) + 1,
                               diags[1].message>> >>

\* C16: two entities of a generation pass with different (category,
\* position) have different identifiers.
C16_UniqueIdentifiers ==
    tres.status # "idle" =>
        \A e \in Entities : \A f \in Entities :
            e # f => identifier(e[1], e[2]) # identifier(f[1], f[2])

\* Two identified fragments of the scene have the same identifier.
Collision ==
    \E f \in Fragments : \E g \in Fragments : f # g /\ IdOf(f) = IdOf(g)

\* C17: when two identified fragments have the same identifier,
\* generate_shader_code panics; a document it returns holds a range for
\* each of the identified fragments.
C17_CollisionPanics ==
    tres.status # "idle" =>
        /\ Collision => tres.status = "panicked"
        /\ tres.status = "returned" =>
               Cardinality(DOMAIN CodeIndex) = Cardinality(Fragments)

\* C17 witness: a material and an object, of two sections, have the same
\* identifier, and the generation panicked on the assert of add.
C17_Witness ==
    /\ tres.status = "panicked"
    /\ tres.why = "assert"
    /\ \E f \in Fragments : \E g \in Fragments :
           f[1] = "Material" /\ g[1] = "Object" /\ IdOf(f) = IdOf(g)

\* C18: no entity of the scene is given ErrId::default(), the generated
\* index has no range for it, and its bucket holds only the messages that
\* were unparsed or on a line outside every range.
C18_DefaultReserved ==
    /\ \A e \in Entities : identifier(e[1], e[2]) # ErrIdDefault
    /\ tres.status = "returned" => ErrIdDefault \notin DOMAIN CodeIndex
    /\ (diags # <<>> /\ ErrIdDefault \in DOMAIN errors) =>
           \A k \in DOMAIN errors[ErrIdDefault] :
               \E i \in DOMAIN diags :
                   \/ /\ ~diags[i].ok
                      /\ errors[ErrIdDefault][k] =
                             <<USIZE_MAX, diags[i].message>>
                   \/ /\ diags[i].ok
                      /\ Owners(diags[i].line_no) = {}
                      /\ errors[ErrIdDefault][k] =
                             <<diags[i].line_no, diags[i].message>>

\* C18 witness: the first material has code, so it has the first
\* identifier of all, and a message on a line of the document outside
\* every range is in the default bucket.
C18_Witness ==
    /\ tres.status = "returned"
    /\ <<"Material", 0>> \in Fragments
    /\ IdOf(<<"Material", 0>>) \in DOMAIN CodeIndex
    /\ diags # <<>>
    /\ diags[1].ok
    /\ diags[1].line_no \in 1..tres.v.current_line_no
    /\ Owners(diags[1].line_no) = {}
    /\ errors = [k \in {ErrIdDefault} |->
                    << <<diags[1].line_no, diags[1].message>> >>]

\* The sections that are built without identifiers.
PlainSections ==
    {UNIFORMS, TEXTURES, MATERIALS_DEFINES, INTERSECTIONS, PREDEFINED_LIBRARY}

\* C19: the identifiers of the index of a generated document are
\* 1000 + p for the Complex material at position p, 2000 + p for the Flat
\* or Complex object at position p, 3000 + p for the library entry at
\* position p, each with a range of as many lines as its text has line
\* terminators, plus one; the plain sections hold no identifier.
C19_IndexIdentifiers ==
    (tres.status = "returned" /\ diags = <<>>) =>
        /\ DOMAIN CodeIndex =
               {1000 + (i - 1) : i \in {j \in DOMAIN scene.materials :
                                           scene.materials[j].kind = "Complex"}}
                 \cup {2000 + (i - 1) :
                          i \in {j \in DOMAIN scene.objects :
                                    scene.objects[j].shape # "DebugMatrix"}}
                 \cup {3000 + (i - 1) : i \in DOMAIN scene.library}
        /\ \A i \in DOMAIN scene.materials :
               scene.materials[i].kind = "Complex" =>
                   CodeIndex[999 + i].end - CodeIndex[999 + i].start
                       = CountNL(scene.materials[i].code) + 1
        /\ \A i \in DOMAIN scene.objects :
               scene.objects[i].shape # "DebugMatrix" =>
                   CodeIndex[1999 + i].end - CodeIndex[1999 + i].start
                       = CountNL(scene.objects[i].code) + 1
        /\ \A i \in DOMAIN scene.library :
               CodeIndex[2999 + i].end - CodeIndex[2999 + i].start
                   = CountNL(scene.library[i]) + 1
        /\ \A n \in PlainSections :
               DOMAIN shader_storages(scene).v[n].line_numbers = {}

\* C19 witness: a Simple material, then a Complex one: the index holds
\* ErrId(1001) and nothing else.
C19_Witness ==
    /\ tres.status = "returned"
    /\ Len(scene.materials) = 2
    /\ scene.materials[1].kind = "Simple"
    /\ scene.materials[2].kind = "Complex"
    /\ DOMAIN CodeIndex = {1001}

\* ---------------------------------------------------- C20, under Spec

\* The lines of a range.
Lines(r) == r.start..(r.end - 1)

\* No two ranges of the index have two lines in common.
AtMostOneShared(index) ==
    \A j \in DOMAIN index : \A k \in DOMAIN index :
        j # k => Cardinality(Lines(index[j]) \cap Lines(index[k])) <= 1

\* C20: in every builder the calls make, and in every document
\* apply_template returns, the ranges of two distinct identifiers have at
\* most one line in common.
C20_SharedLines ==
    /\ \A x \in Slots : AtMostOneShared(st[x].line_numbers)
    /\ tres.status = "returned" => AtMostOneShared(tres.v.line_numbers)

\* C20 witness: a splice gave the builder the second identifier, and the
\* two ranges, of more than one line each, have exactly one line in common.
C20_Witness ==
    /\ Returned("add_string_storage")
    /\ DOMAIN PreSelf.line_numbers = {1}
    /\ DOMAIN PreOther.line_numbers = {2}
    /\ Cardinality(Lines(PostSelf.line_numbers[1])) > 1
    /\ Cardinality(Lines(PostSelf.line_numbers[2])) > 1
    /\ Cardinality(Lines(PostSelf.line_numbers[1])
                     \cap Lines(PostSelf.line_numbers[2])) = 1

\* --------------------------------------------------- C21, under Spec

\* C21: in every builder the calls make, the cursor is at least 1, so the
\* current_line_no - 1 of a splice does not underflow, and every recorded
\* range has 1 <= start < end <= current_line_no + 1.
C21_RangeBounds ==
    /\ \A x \in Slots :
           /\ st[x].current_line_no - 1 >= 0
           /\ \A k \in DOMAIN st[x].line_numbers :
                  /\ 1 <= st[x].line_numbers[k].start
                  /\ st[x].line_numbers[k].start < st[x].line_numbers[k].end
                  /\ st[x].line_numbers[k].end <= st[x].current_line_no + 1
    /\ last.op = "add_string_storage" => PreSelf.current_line_no - 1 >= 0

\* C21 witness: a splice into a builder whose cursor had moved gave it a
\* range, which was shifted and ends one line behind the cursor; the
\* builder has one more range, of several lines, that ends before.
C21_Witness ==
    /\ Returned("add_string_storage")
    /\ PreSelf.current_line_no > 1
    /\ DOMAIN PreSelf.line_numbers = {1}
    /\ DOMAIN PreOther.line_numbers = {2}
    /\ PostSelf.line_numbers[2].start > PreOther.line_numbers[2].start
    /\ PostSelf.line_numbers[2].end = PostSelf.current_line_no + 1
    /\ PostSelf.line_numbers[1].end < PostSelf.current_line_no + 1
    /\ PostSelf.line_numbers[1].end - PostSelf.line_numbers[1].start > 1

\* --------------------------------------------------- C22, under SpecL

\* C22: the local line get_identifier returns for an identifier that
\* add_identifier_string(id, text) recorded is at least 1 and at most
\* 1 + the number of "\n" in text, also when the range came with a
\* splice; line_no - range.start is not negative.
C22_LocalLineBounds ==
    (found.asked /\ found.res.some) =>
        LET id == found.res.v[1]
            x  == last.target
        IN  /\ id \in DOMAIN frag[x]
            /\ found.line_no - st[x].line_numbers[id].start >= 0
            /\ 1 <= found.res.v[2]
            /\ found.res.v[2] <= 1 + CountNL(frag[x][id].text)

\* C22 witness: the range came with a splice behind text of two lines or
\* more, its text has a line terminator, and the line asked is its last
\* one: the local line is 1 + the number of terminators.
C22_Witness ==
    /\ found.asked
    /\ Returned("add_string_storage")
    /\ PreSelf.current_line_no > 1
    /\ 2 \in DOMAIN PreOther.line_numbers
    /\ CountNL(frag[last.target][2].text) >= 1
    /\ found.res = Some(<<2, 1 + CountNL(frag[last.target][2].text)>>)

====
